---- MODULE Spec2Model ----
(***************************************************************************)
(* A model of the personal dashboard of src/app.py: the entity store       *)
(* (Todo, Note, Event, PomodoroSession) behind the JSON API, and the       *)
(* derived views computed from it (pomodoro statistics, the dashboard's    *)
(* weekly histogram, the calendar page, the CSV exports), and the mock     *)
(* weather generated from the clock.                                       *)
(*                                                                         *)
(* Time.  A timestamp is an integer number of ticks since 00:00:00.000000  *)
(* of the epoch date.  A day has SlotsPerDay slots (the hour/minute/second *)
(* part of a datetime) of MicroPerSlot ticks each (its microsecond part).  *)
(* clock is what datetime.utcnow() returns; datetime.now() returns         *)
(* clock + tz, the server's local time.                                    *)
(*                                                                         *)
(* Dates are proleptic Gregorian ordinals, as date.toordinal() numbers     *)
(* them; Ymd and ToOrdinal convert as the datetime module does.            *)
(***************************************************************************)
EXTENDS Integers, Sequences, FiniteSets, TLC

(***************************************************************************)
(* Bounds of the model                                                     *)
(***************************************************************************)
\* the clock runs over the days 0 .. MaxDay after the epoch date
MaxDay == 7
\* slots per day and ticks per slot: the granularity of a timestamp
SlotsPerDay == 2
MicroPerSlot == 2
\* records a collection may hold
MaxSessions == 2
MaxTodos == 6
MaxNotes == 4
MaxEvents == 5

TicksPerDay == SlotsPerDay * MicroPerSlot
MaxClock == (MaxDay + 1) * TicksPerDay - 1

(***************************************************************************)
(* The datetime and calendar modules, as far as the handlers use them      *)
(***************************************************************************)
MINYEAR == 1
MAXYEAR == 9999

RECURSIVE SumTo(_, _)
\* sum of f[1] .. f[n]
SumTo(f, n) == IF n = 0 THEN 0 ELSE f[n] + SumTo(f, n - 1)

isleap(year) == year % 4 = 0 /\ (year % 100 # 0 \/ year % 400 = 0)

\* calendar.mdays / datetime._DAYS_IN_MONTH
mdays == <<31, 28, 31, 30, 31, 30, 31, 31, 30, 31, 30, 31>>

\* calendar.monthrange(year, month)[1]
DaysInMonth(year, month) ==
  mdays[month] + (IF month = 2 /\ isleap(year) THEN 1 ELSE 0)

\* days before January 1st of year
DaysBeforeYear(year) ==
  LET y == year - 1 IN y * 365 + (y \div 4) - (y \div 100) + (y \div 400)

\* days of year before the first day of month
DaysBeforeMonth(year, month) ==
  SumTo([m \in 1..12 |-> DaysInMonth(year, m)], month - 1)

\* date(year, month, day).toordinal()
ToOrdinal(year, month, day) ==
  DaysBeforeYear(year) + DaysBeforeMonth(year, month) + day

\* date(year, month, day) is a date the library accepts
ValidDate(year, month, day) ==
  /\ year \in MINYEAR..MAXYEAR
  /\ month \in 1..12
  /\ day \in 1..DaysInMonth(year, month)

\* date.fromordinal(n) as <<year, month, day>> (datetime._ord2ymd)
Ymd(ordinal) ==
  LET n    == ordinal - 1
      n400 == n \div 146097
      r400 == n % 146097
      n100 == r400 \div 36524
      r100 == r400 % 36524
      n4   == r100 \div 1461
      r4   == r100 % 1461
      n1   == r4 \div 365
      r1   == r4 % 365
      y0   == n400 * 400 + n100 * 100 + n4 * 4 + n1 + 1
  IN IF n1 = 4 \/ n100 = 4
     THEN <<y0 - 1, 12, 31>>
     ELSE LET m == CHOOSE k \in 1..12 :
                     /\ DaysBeforeMonth(y0, k) <= r1
                     /\ r1 < DaysBeforeMonth(y0, k) + DaysInMonth(y0, k)
          IN <<y0, m, r1 - DaysBeforeMonth(y0, m) + 1>>

\* date.weekday(): Monday is 0, Sunday is 6
Weekday(ordinal) == (ordinal + 6) % 7


(***************************************************************************)
(* Text.  Fields that are stored as the client sent them are TLA+ strings  *)
(* (the exports read them character by character).  A time label and a     *)
(* date string are sequences of character codes, because the code orders   *)
(* the first and parses the second.                                        *)
(***************************************************************************)
Digit(d) == 48 + d
Dash == 45
Colon == 58

\* the text "hh:mm"
HM(h, m) ==
  <<Digit(h \div 10), Digit(h % 10), Colon, Digit(m \div 10), Digit(m % 10)>>

RECURSIVE LexLess(_, _)
\* a < b for two texts, compared character by character (BINARY collation)
LexLess(a, b) ==
  IF Len(b) = 0 THEN FALSE
  ELSE IF Len(a) = 0 THEN TRUE
  ELSE IF Head(a) # Head(b) THEN Head(a) < Head(b)
  ELSE LexLess(Tail(a), Tail(b))

\* the text "YYYY-MM-DD"
Iso(y, m, d) ==
  <<Digit(y \div 1000), Digit((y \div 100) % 10), Digit((y \div 10) % 10),
    Digit(y % 10), Dash, Digit(m \div 10), Digit(m % 10), Dash,
    Digit(d \div 10), Digit(d % 10)>>

\* date.isoformat()
isoformat(ordinal) ==
  LET d == Ymd(ordinal) IN Iso(d[1], d[2], d[3])

IsDigit(c) == c \in Digit(0)..Digit(9)

\* datetime.strptime(text, '%Y-%m-%d').date() for a text of the form
\* dddd-dd-dd: the ordinal of the date, or -1 where strptime raises
\* ValueError
strptime(text) ==
  IF /\ Len(text) = 10
     /\ text[5] = Dash /\ text[8] = Dash
     /\ \A i \in {1, 2, 3, 4, 6, 7, 9, 10} : IsDigit(text[i])
  THEN LET y == (text[1] - 48) * 1000 + (text[2] - 48) * 100
                + (text[3] - 48) * 10 + (text[4] - 48)
           m == (text[6] - 48) * 10 + (text[7] - 48)
           d == (text[9] - 48) * 10 + (text[10] - 48)
       IN IF ValidDate(y, m, d) THEN ToOrdinal(y, m, d) ELSE -1
  ELSE -1

(***************************************************************************)
(* State                                                                   *)
(***************************************************************************)
VARIABLES
  clock,     \* datetime.utcnow(), in ticks since the epoch date's midnight
  tz,        \* the server's UTC offset in ticks: datetime.now() - utcnow()
  todos,     \* Todo table: id -> [task, completed, created_at]
  notes,     \* Note table: id -> [title, content, color, created_at, updated_at]
  events,    \* Event table: id -> [title, description, date, time, color, created_at]
  sessions,  \* PomodoroSession table: id -> [duration, completed, created_at]
  resp,      \* the response to the last request, with the request it answers
  served     \* requests served so far (counted where a run is cut by length)

vars == <<clock, tz, todos, notes, events, sessions, resp, served>>
tables == <<todos, notes, events, sessions>>

\* the date on which the server is started
EpochDate == <<2024, 2, 25>>
EpochOrdinal == ToOrdinal(EpochDate[1], EpochDate[2], EpochDate[3])

\* datetime.utcnow() and datetime.now()
utcnow == clock
now == clock + tz

\* dt.date() as an ordinal, for a timestamp dt
DateOf(dt) == EpochOrdinal + (dt \div TicksPerDay)
\* dt.replace(hour=0, minute=0, second=0, microsecond=0)
Midnight(dt) == dt - (dt % TicksPerDay)
\* dt.replace(hour=0, minute=0, second=0): the microseconds stay
MidnightKeepMicro(dt) == Midnight(dt) + (dt % MicroPerSlot)
\* timedelta(days=n)
Days(n) == n * TicksPerDay

\* dict.get(key, default) and `key in dict` on a JSON body
Get(data, key, default) == IF key \in DOMAIN data THEN data[key] ELSE default
Has(data, key) == key \in DOMAIN data
\* the JSON body {}
NoFields == [k \in {} |-> ""]

\* the primary key SQLite gives a new row: the largest rowid in use plus one
NextId(table) ==
  IF DOMAIN table = {} THEN 1
  ELSE (CHOOSE i \in DOMAIN table : \A j \in DOMAIN table : j <= i) + 1

\* db.session.add(row); db.session.commit()
Insert(table, row) ==
  [i \in DOMAIN table \cup {NextId(table)} |->
     IF i \in DOMAIN table THEN table[i] ELSE row]
\* db.session.delete(row); db.session.commit()
Remove(table, id) == [i \in DOMAIN table \ {id} |-> table[i]]

\* no request is being answered
Idle == [op |-> "none", id |-> 0, status |-> 0]

NotFound(op, id) == [op |-> op, id |-> id, status |-> 404]

(***************************************************************************)
(* init_sample_data: the rows of a freshly created database                *)
(***************************************************************************)
sample_todos ==
  <<[task |-> "Complete MIS2001 assignment", completed |-> FALSE],
    [task |-> "Review Flask documentation", completed |-> TRUE],
    [task |-> "Build dashboard project", completed |-> TRUE],
    [task |-> "Practice Python coding", completed |-> FALSE],
    [task |-> "Prepare for midterm exam", completed |-> FALSE]>>

sample_notes ==
  <<[title |-> "Flask Tips",
     content |-> "Remember to use blueprints for larger applications. Keep routes organized!",
     color |-> "primary"],
    [title |-> "Meeting Notes",
     content |-> "Discussed project timeline. Deadline is next Friday. Need to complete API integration.",
     color |-> "success"],
    [title |-> "Ideas",
     content |-> "- Add dark mode\n- Mobile responsive design\n- Pomodoro timer\n- Calendar integration",
     color |-> "warning"]>>

\* `after` is the number of days after today of the event's date; the last
\* event is created without a description
sample_events ==
  <<[title |-> "Team Meeting", after |-> 0, time |-> HM(10, 0),
     description |-> "Weekly sync", color |-> "primary"],
    [title |-> "Project Deadline", after |-> 3, time |-> HM(23, 59),
     description |-> "Submit final project", color |-> "danger"],
    [title |-> "Study Group", after |-> 1, time |-> HM(14, 0),
     description |-> "Library room 201", color |-> "success"],
    [title |-> "Doctor Appointment", after |-> 5, time |-> HM(9, 30),
     description |-> "", color |-> "warning"]>>

\* the server's possible UTC offsets: one slot behind UTC, none, one slot ahead
UtcOffsets == {-MicroPerSlot, 0, MicroPerSlot}

Init ==
  /\ clock = 0
  /\ tz \in UtcOffsets
  /\ todos = [i \in 1..Len(sample_todos) |->
                [task |-> sample_todos[i].task,
                 completed |-> sample_todos[i].completed,
                 created_at |-> clock]]
  /\ notes = [i \in 1..Len(sample_notes) |->
                [title |-> sample_notes[i].title,
                 content |-> sample_notes[i].content,
                 color |-> sample_notes[i].color,
                 created_at |-> clock, updated_at |-> clock]]
  /\ events = [i \in 1..Len(sample_events) |->
                [title |-> sample_events[i].title,
                 description |-> sample_events[i].description,
                 date |-> DateOf(clock + tz) + sample_events[i].after,
                 time |-> sample_events[i].time,
                 color |-> sample_events[i].color,
                 created_at |-> clock]]
  /\ sessions = <<>>
  /\ resp = Idle
  /\ served = 0

\* a table holds fewer than cap rows: the room a run leaves for one more
Room(table, cap) == Cardinality(DOMAIN table) < cap

\* time passes, after the response to the last request has gone out
Tick(limit) ==
  /\ clock < limit
  /\ clock' = clock + 1
  /\ resp' = Idle
  /\ UNCHANGED <<tz, todos, notes, events, sessions>>


(***************************************************************************)
(* API routes - todos                                                      *)
(***************************************************************************)
\* POST /api/todos
add_todo(data) ==
  /\ LET todo == [task |-> Get(data, "task", ""), completed |-> FALSE,
                  created_at |-> utcnow]
     IN /\ todos' = Insert(todos, todo)
        /\ resp' = [op |-> "add_todo", id |-> NextId(todos), status |-> 201,
                    body |-> todo]
  /\ UNCHANGED <<clock, tz, notes, events, sessions>>

\* the row update_todo commits for an existing todo
update_todo_row(todo, data) ==
  [todo EXCEPT
     !.completed = IF Has(data, "completed") THEN data.completed ELSE @,
     !.task = IF Has(data, "task") THEN data.task ELSE @]

\* PUT /api/todos/<todo_id>
update_todo(todo_id, data) ==
  /\ IF todo_id \notin DOMAIN todos
     THEN /\ resp' = NotFound("update_todo", todo_id)
          /\ UNCHANGED todos
     ELSE LET todo == update_todo_row(todos[todo_id], data)
          IN /\ todos' = [todos EXCEPT ![todo_id] = todo]
             /\ resp' = [op |-> "update_todo", id |-> todo_id, status |-> 200,
                         body |-> todo]
  /\ UNCHANGED <<clock, tz, notes, events, sessions>>

\* DELETE /api/todos/<todo_id>
delete_todo(todo_id) ==
  /\ IF todo_id \notin DOMAIN todos
     THEN /\ resp' = NotFound("delete_todo", todo_id)
          /\ UNCHANGED todos
     ELSE /\ todos' = Remove(todos, todo_id)
          /\ resp' = [op |-> "delete_todo", id |-> todo_id, status |-> 200,
                      body |-> [message |-> "Todo deleted"]]
  /\ UNCHANGED <<clock, tz, notes, events, sessions>>

(***************************************************************************)
(* API routes - notes                                                      *)
(***************************************************************************)
\* POST /api/notes.  The INSERT evaluates the column defaults in column
\* order: created_at's utcnow() first, updated_at's utcnow() second, at
\* flushed, a moment at or after the first.
add_note(data, flushed) ==
  /\ flushed >= clock
  /\ LET note == [title |-> Get(data, "title", "Untitled"),
                  content |-> Get(data, "content", ""),
                  color |-> Get(data, "color", "primary"),
                  created_at |-> utcnow, updated_at |-> flushed]
     IN /\ notes' = Insert(notes, note)
        /\ resp' = [op |-> "add_note", id |-> NextId(notes), status |-> 201,
                    body |-> note]
  /\ clock' = flushed
  /\ UNCHANGED <<tz, todos, events, sessions>>

\* GET /api/notes/<note_id>
get_note(note_id) ==
  /\ resp' = IF note_id \notin DOMAIN notes
             THEN NotFound("get_note", note_id)
             ELSE [op |-> "get_note", id |-> note_id, status |-> 200,
                   body |-> notes[note_id]]
  /\ UNCHANGED <<clock, tz, todos, notes, events, sessions>>

\* update_note without its refresh of updated_at
update_note_row_stale(note, data) ==
  [note EXCEPT
     !.title = IF Has(data, "title") THEN data.title ELSE @,
     !.content = IF Has(data, "content") THEN data.content ELSE @,
     !.color = IF Has(data, "color") THEN data.color ELSE @]

\* the row update_note commits for an existing note
update_note_row(note, data) ==
  [note EXCEPT
     !.title = IF Has(data, "title") THEN data.title ELSE @,
     !.content = IF Has(data, "content") THEN data.content ELSE @,
     !.color = IF Has(data, "color") THEN data.color ELSE @,
     !.updated_at = utcnow]

\* update_note that creates the note it does not find
update_note_upsert(note_id, data) ==
  /\ LET old == IF note_id \in DOMAIN notes THEN notes[note_id]
                ELSE [title |-> "Untitled", content |-> "", color |-> "primary",
                      created_at |-> utcnow, updated_at |-> utcnow]
         note == update_note_row(old, data)
     IN /\ notes' = [i \in DOMAIN notes \cup {note_id} |->
                       IF i = note_id THEN note ELSE notes[i]]
        /\ resp' = [op |-> "update_note", id |-> note_id, status |-> 200,
                    body |-> note]
  /\ UNCHANGED <<clock, tz, todos, events, sessions>>

\* PUT /api/notes/<note_id>
update_note(note_id, data) ==
  /\ IF note_id \notin DOMAIN notes
     THEN /\ resp' = NotFound("update_note", note_id)
          /\ UNCHANGED notes
     ELSE LET note == update_note_row(notes[note_id], data)
          IN /\ notes' = [notes EXCEPT ![note_id] = note]
             /\ resp' = [op |-> "update_note", id |-> note_id, status |-> 200,
                         body |-> note]
  /\ UNCHANGED <<clock, tz, todos, events, sessions>>

\* DELETE /api/notes/<note_id>
delete_note(note_id) ==
  /\ IF note_id \notin DOMAIN notes
     THEN /\ resp' = NotFound("delete_note", note_id)
          /\ UNCHANGED notes
     ELSE /\ notes' = Remove(notes, note_id)
          /\ resp' = [op |-> "delete_note", id |-> note_id, status |-> 200,
                      body |-> [message |-> "Note deleted"]]
  /\ UNCHANGED <<clock, tz, todos, events, sessions>>

(***************************************************************************)
(* API routes - events                                                     *)
(***************************************************************************)
\* an unhandled exception in a handler: the session is never committed
ServerError(op, id) == [op |-> op, id |-> id, status |-> 500]

\* POST /api/events: data['date'] raises KeyError without the key, strptime
\* raises ValueError on a text that is no date
add_event(data) ==
  /\ IF ~Has(data, "date") \/ strptime(Get(data, "date", <<>>)) = -1
     THEN /\ resp' = ServerError("add_event", 0)
          /\ UNCHANGED events
     ELSE LET event == [title |-> Get(data, "title", "Untitled"),
                        description |-> Get(data, "description", ""),
                        date |-> strptime(data.date),
                        time |-> Get(data, "time", <<>>),
                        color |-> Get(data, "color", "primary"),
                        created_at |-> utcnow]
          IN /\ events' = Insert(events, event)
             /\ resp' = [op |-> "add_event", id |-> NextId(events),
                         status |-> 201, body |-> event]
  /\ UNCHANGED <<clock, tz, todos, notes, sessions>>

\* GET /api/events/<event_id>
get_event(event_id) ==
  /\ resp' = IF event_id \notin DOMAIN events
             THEN NotFound("get_event", event_id)
             ELSE [op |-> "get_event", id |-> event_id, status |-> 200,
                   body |-> events[event_id]]
  /\ UNCHANGED <<clock, tz, todos, notes, events, sessions>>

\* the row update_event commits for an existing event
update_event_row(event, data) ==
  [event EXCEPT
     !.title = IF Has(data, "title") THEN data.title ELSE @,
     !.description = IF Has(data, "description") THEN data.description ELSE @,
     !.date = IF Has(data, "date") THEN strptime(data.date) ELSE @,
     !.time = IF Has(data, "time") THEN data.time ELSE @,
     !.color = IF Has(data, "color") THEN data.color ELSE @]

\* PUT /api/events/<event_id>
update_event(event_id, data) ==
  /\ IF event_id \notin DOMAIN events
     THEN /\ resp' = NotFound("update_event", event_id)
          /\ UNCHANGED events
     ELSE IF Has(data, "date") /\ strptime(Get(data, "date", <<>>)) = -1
     THEN /\ resp' = ServerError("update_event", event_id)
          /\ UNCHANGED events
     ELSE LET event == update_event_row(events[event_id], data)
          IN /\ events' = [events EXCEPT ![event_id] = event]
             /\ resp' = [op |-> "update_event", id |-> event_id,
                         status |-> 200, body |-> event]
  /\ UNCHANGED <<clock, tz, todos, notes, sessions>>

\* DELETE /api/events/<event_id>
delete_event(event_id) ==
  /\ IF event_id \notin DOMAIN events
     THEN /\ resp' = NotFound("delete_event", event_id)
          /\ UNCHANGED events
     ELSE /\ events' = Remove(events, event_id)
          /\ resp' = [op |-> "delete_event", id |-> event_id, status |-> 200,
                      body |-> [message |-> "Event deleted"]]
  /\ UNCHANGED <<clock, tz, todos, notes, sessions>>

(***************************************************************************)
(* API routes - pomodoro                                                   *)
(***************************************************************************)
\* POST /api/pomodoro/complete
complete_pomodoro(data) ==
  /\ LET session == [duration |-> Get(data, "duration", 25),
                     completed |-> TRUE, created_at |-> utcnow]
     IN /\ sessions' = Insert(sessions, session)
        /\ resp' = [op |-> "complete_pomodoro", id |-> NextId(sessions),
                    status |-> 201, body |-> session]
  /\ UNCHANGED <<clock, tz, todos, notes, events>>


(***************************************************************************)
(* Derived views                                                           *)
(***************************************************************************)
\* query.filter(created_at >= start).count()
CountFrom(start) ==
  Cardinality({i \in DOMAIN sessions : sessions[i].created_at >= start})
\* query.filter(created_at >= start, created_at < end).count()
CountBetween(start, end) ==
  Cardinality({i \in DOMAIN sessions :
                 /\ sessions[i].created_at >= start
                 /\ sessions[i].created_at < end})

\* db.session.query(db.func.sum(PomodoroSession.duration)).scalar() or 0
total_minutes ==
  SumTo([i \in DOMAIN sessions |-> sessions[i].duration],
        Cardinality(DOMAIN sessions))

\* total_minutes // 60 rounded to the nearest hour instead
total_hours_rounded(minutes) == (minutes + 30) \div 60

\* total_minutes // 60
total_hours(minutes) == minutes \div 60

\* the three figures of the pomodoro page and of the statistics API
pomodoro_stats ==
  [today_sessions |-> CountFrom(Midnight(now)),
   total_sessions |-> Cardinality(DOMAIN sessions),
   total_hours |-> total_hours(total_minutes)]

\* GET /api/pomodoro/stats
get_pomodoro_stats ==
  /\ resp' = [op |-> "get_pomodoro_stats", id |-> 0, status |-> 200,
              body |-> pomodoro_stats]
  /\ UNCHANGED <<clock, tz, todos, notes, events, sessions>>

\* GET /pomodoro
pomodoro ==
  /\ resp' = [op |-> "pomodoro", id |-> 0, status |-> 200,
              body |-> pomodoro_stats]
  /\ UNCHANGED <<clock, tz, todos, notes, events, sessions>>

\* strftime('%a') by date.weekday()
DayAbbr == <<"Mon", "Tue", "Wed", "Thu", "Fri", "Sat", "Sun">>

\* one bucket whose window also takes the next midnight
weekly_bucket_closed(i) ==
  LET day == now - Days(6 - i)
      day_start == Midnight(day)
      day_end == day_start + Days(1)
  IN [day |-> DayAbbr[Weekday(DateOf(day)) + 1],
      sessions |-> Cardinality({k \in DOMAIN sessions :
                      /\ sessions[k].created_at >= day_start
                      /\ sessions[k].created_at <= day_end})]

\* the body of the dashboard's loop `for i in range(7)`
weekly_bucket(i) ==
  LET day == now - Days(6 - i)
      day_start == Midnight(day)
      day_end == day_start + Days(1)
  IN [day |-> DayAbbr[Weekday(DateOf(day)) + 1],
      sessions |-> CountBetween(day_start, day_end)]

\* weekly_data, the list the loop appends to
weekly_data == [k \in 1..7 |-> weekly_bucket(k - 1)]

\* GET /: the productivity figures of the dashboard (the lists of latest
\* todos and notes, the schedule, the quote and the weather are rendered
\* beside them)
dashboard ==
  /\ resp' = [op |-> "dashboard", id |-> 0, status |-> 200,
              body |-> [total_todos |-> Cardinality(DOMAIN todos),
                        completed_todos |->
                          Cardinality({i \in DOMAIN todos : todos[i].completed}),
                        today_sessions |-> CountFrom(MidnightKeepMicro(now)),
                        weekly_data |-> weekly_data]]
  /\ UNCHANGED <<clock, tz, todos, notes, events, sessions>>

(***************************************************************************)
(* Calendar page                                                           *)
(***************************************************************************)
\* the month overflow handling that forgets the year
normalize_same_year(year, month) ==
  IF month > 12 THEN <<year, 1>>
  ELSE IF month < 1 THEN <<year, 12>>
  ELSE <<year, month>>

\* "Handle month overflow": the <<year, month>> the page is built for
normalize(year, month) ==
  IF month > 12 THEN <<year + 1, 1>>
  ELSE IF month < 1 THEN <<year - 1, 12>>
  ELSE <<year, month>>

\* the flat list of cells of a month whose weeks start on firstweekday
\* (Calendar.itermonthdays): 0 for a cell of a neighbouring month
itermonthdays(year, month, firstweekday) ==
  LET day1 == Weekday(ToOrdinal(year, month, 1))
      ndays == DaysInMonth(year, month)
      days_before == (day1 - firstweekday) % 7
      days_after == (firstweekday - day1 - ndays) % 7
  IN [k \in 1..(days_before + ndays + days_after) |->
        IF k <= days_before \/ k > days_before + ndays THEN 0
        ELSE k - days_before]

\* the cells cut into weeks of 7 (Calendar.monthdayscalendar)
Weeks(cells) ==
  [w \in 1..(Len(cells) \div 7) |-> [c \in 1..7 |-> cells[(w - 1) * 7 + c]]]

\* the month grid with weeks that start on Monday
month_days_monday(year, month) == Weeks(itermonthdays(year, month, 0))

\* calendar.Calendar(firstweekday=6).monthdayscalendar(year, month)
month_days(year, month) == Weeks(itermonthdays(year, month, 6))

\* calendar.month_name
month_name ==
  <<"January", "February", "March", "April", "May", "June", "July",
    "August", "September", "October", "November", "December">>

\* datetime(year, month, 1) raises ValueError
Raises(year, month) == ~ValidDate(year, month, 1)

\* first_day and last_day of the month, or the ValueError of datetime()
month_bounds(year, month) ==
  IF Raises(year, month) THEN [ok |-> FALSE]
  ELSE IF month = 12
  THEN IF Raises(year + 1, 1) THEN [ok |-> FALSE]
       ELSE [ok |-> TRUE, first_day |-> ToOrdinal(year, month, 1),
             last_day |-> ToOrdinal(year + 1, 1, 1) - 1]
  ELSE [ok |-> TRUE, first_day |-> ToOrdinal(year, month, 1),
        last_day |-> ToOrdinal(year, month + 1, 1) - 1]

\* the filter that leaves the last day out
in_range_open(date, first_day, last_day) ==
  date >= first_day /\ date < last_day

\* Event.date >= first_day, Event.date <= last_day
in_range(date, first_day, last_day) ==
  date >= first_day /\ date <= last_day

\* row a sorts before row b under order_by(Event.date, Event.time)
SortsBefore(a, b) ==
  \/ events[a].date < events[b].date
  \/ events[a].date = events[b].date /\ LexLess(events[a].time, events[b].time)

RECURSIVE OrderBy(_)
\* the orders in which the query may return the rows ids: ascending by
\* (date, time), rows with equal keys in any order
OrderBy(ids) ==
  IF ids = {} THEN {<<>>}
  ELSE UNION {{<<m>> \o rest : rest \in OrderBy(ids \ {m})} :
                m \in {a \in ids : \A b \in ids : ~SortsBefore(b, a)}}

\* Event.to_dict
to_dict(id) ==
  [id |-> id, title |-> events[id].title,
   description |-> events[id].description,
   date |-> isoformat(events[id].date),
   time |-> events[id].time, color |-> events[id].color]

RECURSIVE group_by_date(_, _)
\* the loop `for event in events` that fills events_by_date
group_by_date(rows, events_by_date) ==
  IF rows = <<>> THEN events_by_date
  ELSE LET date_str == isoformat(events[Head(rows)].date)
           started == IF date_str \in DOMAIN events_by_date
                      THEN events_by_date
                      ELSE [k \in DOMAIN events_by_date \cup {date_str} |->
                              IF k = date_str THEN <<>>
                              ELSE events_by_date[k]]
       IN group_by_date(Tail(rows),
            [started EXCEPT ![date_str] = Append(@, to_dict(Head(rows)))])

\* what the page may render for the query parameters year and month: its
\* status and, unless datetime() raised, the template's arguments
calendar_views(year_arg, month_arg) ==
  LET ym == normalize(year_arg, month_arg)
      year == ym[1]
      month == ym[2]
      bounds == month_bounds(year, month)
  IN IF ~bounds.ok THEN {[status |-> 500]}
     ELSE {[status |-> 200,
            body |-> [year |-> year, month |-> month,
                      month_name |-> month_name[month],
                      month_days |-> month_days(year, month),
                      first_day |-> bounds.first_day,
                      last_day |-> bounds.last_day,
                      events_by_date |->
                        group_by_date(rows, [k \in {} |-> <<>>]),
                      today |-> DateOf(now)]] :
           rows \in OrderBy({id \in DOMAIN events :
                      in_range(events[id].date, bounds.first_day,
                               bounds.last_day)})}

\* GET /calendar?year=..&month=..
calendar_page(year, month) ==
  /\ \E view \in calendar_views(year, month) :
       resp' = [op |-> "calendar_page", id |-> 0,
                args |-> [year |-> year, month |-> month]] @@ view
  /\ UNCHANGED <<clock, tz, todos, notes, events, sessions>>

(***************************************************************************)
(* Export routes.  The exported text is a TLA+ string, built character by  *)
(* character as csv.writer builds it.                                      *)
(***************************************************************************)
RECURSIVE replace(_, _, _)
\* text.replace(old, new) for a one-character old
replace(text, old, new) ==
  IF Len(text) <= 1 THEN (IF text = old THEN new ELSE text)
  ELSE LET half == Len(text) \div 2
       IN replace(SubSeq(text, 1, half), old, new)
            \o replace(SubSeq(text, half + 1, Len(text)), old, new)

\* text.replace('\n', ' ').replace('\r', ' ') if text else ''
one_line(text) ==
  IF text = "" THEN "" ELSE replace(replace(text, "\n", " "), "\r", " ")

RECURSIVE str(_)
\* str(n) for an integer n >= 0
str(n) ==
  IF n < 10 THEN SubSeq("0123456789", n + 1, n + 1)
  ELSE str(n \div 10) \o str(n % 10)

\* the character of a character code of a date or a time label
Chr(c) ==
  IF c = Dash THEN "-" ELSE IF c = Colon THEN ":" ELSE str(c - Digit(0))

RECURSIVE Text(_)
\* the text of a sequence of character codes
Text(codes) ==
  IF codes = <<>> THEN "" ELSE Chr(Head(codes)) \o Text(Tail(codes))

\* dt.hour: the slots divide the day evenly, and a moment of slot s lies in
\* the hour at which the slot starts
Hour(dt) == ((dt % TicksPerDay) \div MicroPerSlot) * (24 \div SlotsPerDay)

\* dt.strftime('%Y-%m-%d %H:%M:%S')
strftime_seconds(dt) ==
  Text(isoformat(DateOf(dt))) \o " " \o Text(HM(Hour(dt), 0)) \o ":00"

\* dt.strftime('%Y%m%d')
strftime_compact(dt) ==
  LET d == Ymd(DateOf(dt))
  IN Text(<<Digit(d[1] \div 1000), Digit((d[1] \div 100) % 10),
            Digit((d[1] \div 10) % 10), Digit(d[1] % 10),
            Digit(d[2] \div 10), Digit(d[2] % 10),
            Digit(d[3] \div 10), Digit(d[3] % 10)>>)

\* the characters that make csv.writer quote a field (dialect excel,
\* QUOTE_MINIMAL): the delimiter, the quote character and those of the line
\* terminator
quoted_chars == {",", "\"", "\r", "\n"}

RECURSIVE doublequote(_)
\* every quote character of the field written twice
doublequote(field) ==
  IF Len(field) <= 1 THEN (IF field = "\"" THEN "\"\"" ELSE field)
  ELSE LET half == Len(field) \div 2
       IN doublequote(SubSeq(field, 1, half))
            \o doublequote(SubSeq(field, half + 1, Len(field)))

\* one field as csv.writer writes it
csv_field(field) ==
  IF \E i \in 1..Len(field) : SubSeq(field, i, i) \in quoted_chars
  THEN "\"" \o doublequote(field) \o "\""
  ELSE field

RECURSIVE join(_)
\* the fields of a row with the delimiter between them
join(fields) ==
  IF Len(fields) = 1 THEN csv_field(fields[1])
  ELSE csv_field(Head(fields)) \o "," \o join(Tail(fields))

\* writer.writerow(fields)
writerow(fields) == join(fields) \o "\r\n"

RECURSIVE writerows(_)
\* the rows written one after the other
writerows(rows) ==
  IF rows = <<>> THEN "" ELSE writerow(Head(rows)) \o writerows(Tail(rows))

RECURSIVE OrderByDesc(_, _)
\* the orders in which a query ordered by key[id] descending may return the
\* rows ids, rows with equal keys in any order
OrderByDesc(ids, key) ==
  IF ids = {} THEN {<<>>}
  ELSE UNION {{<<m>> \o rest : rest \in OrderByDesc(ids \ {m}, key)} :
                m \in {a \in ids : \A b \in ids : key[b] <= key[a]}}

\* response.headers of an export
csv_headers(name) ==
  [content_type |-> "text/csv",
   content_disposition |->
     "attachment; filename=" \o name \o "_" \o strftime_compact(now) \o ".csv"]

notes_header ==
  <<"ID", "Title", "Content", "Color", "Created At", "Updated At">>
events_header == <<"ID", "Title", "Description", "Date", "Time", "Color">>

note_row(id) ==
  <<str(id), notes[id].title, one_line(notes[id].content), notes[id].color,
    strftime_seconds(notes[id].created_at),
    strftime_seconds(notes[id].updated_at)>>

event_row(id) ==
  <<str(id), events[id].title, one_line(events[id].description),
    Text(isoformat(events[id].date)), Text(events[id].time),
    events[id].color>>

\* GET /export/notes/csv
export_notes_csv ==
  /\ \E rows \in OrderByDesc(DOMAIN notes,
                           [id \in DOMAIN notes |-> notes[id].updated_at]) :
       resp' = [op |-> "export_notes_csv", id |-> 0, status |-> 200,
                body |-> writerow(notes_header)
                           \o writerows([k \in DOMAIN rows |-> note_row(rows[k])]),
                headers |-> csv_headers("notes")]
  /\ UNCHANGED <<clock, tz, todos, notes, events, sessions>>

\* GET /export/calendar/csv
export_calendar_csv ==
  /\ \E rows \in OrderBy(DOMAIN events) :
       resp' = [op |-> "export_calendar_csv", id |-> 0, status |-> 200,
                body |-> writerow(events_header)
                           \o writerows([k \in DOMAIN rows |-> event_row(rows[k])]),
                headers |-> csv_headers("events")]
  /\ UNCHANGED <<clock, tz, todos, notes, events, sessions>>

(***************************************************************************)
(* Mock weather.  get_mock_weather reads the clock seven times (the day,   *)
(* the hour, and the day label of each forecast entry) and draws twelve    *)
(* random numbers; reads lists what the clock returned at each read, and   *)
(* draws the numbers drawn, in the order of the calls.                     *)
(***************************************************************************)
conditions ==
  <<[condition |-> "Sunny", icon |-> "sun", temp_range |-> <<22, 32>>],
    [condition |-> "Partly Cloudy", icon |-> "cloud-sun",
     temp_range |-> <<20, 28>>],
    [condition |-> "Cloudy", icon |-> "cloud", temp_range |-> <<18, 25>>],
    [condition |-> "Light Rain", icon |-> "cloud-rain",
     temp_range |-> <<16, 22>>],
    [condition |-> "Clear", icon |-> "moon-stars", temp_range |-> <<18, 26>>]>>

\* dt.day
DayOfMonth(dt) == Ymd(DateOf(dt))[3]

\* an index by the day of the week instead
day_index_weekday(dt) == Weekday(DateOf(dt)) % Len(conditions)

\* datetime.now().day % len(conditions), for the moment dt of the read
day_index(dt) == DayOfMonth(dt) % Len(conditions)

\* conditions[index], a Python list index
condition_at(index) == conditions[index + 1]

\* round(num / den) for den > 0: to the nearest integer, a half to the even
\* one
round(num, den) ==
  LET floor == num \div den
      rest == num % den
  IN IF 2 * rest > den THEN floor + 1
     ELSE IF 2 * rest < den THEN floor
     ELSE IF floor % 2 = 0 THEN floor ELSE floor + 1

\* |n|
abs(n) == IF n < 0 THEN -n ELSE n

\* round(temp_min + (temp_max - temp_min)
\*         * (0.5 + 0.5 * (1 - abs(14 - hour) / 14))),
\* which is round(temp_min + (temp_max - temp_min) * (28 - |14 - hour|) / 28);
\* the floating-point value rounds to the same integer for every template
\* and every hour
temperature(weather, hour) ==
  LET temp_min == weather.temp_range[1]
      temp_max == weather.temp_range[2]
  IN round(28 * temp_min + (temp_max - temp_min) * (28 - abs(14 - hour)), 28)

\* a forecast entry that forgets the offset i of its day
forecast_entry_today(index, i, label_at, jitter_high, jitter_low) ==
  LET day_condition == condition_at(index % Len(conditions))
  IN [day |-> DayAbbr[Weekday(DateOf(label_at + Days(i))) + 1],
      high |-> day_condition.temp_range[2] + jitter_high,
      low |-> day_condition.temp_range[1] + jitter_low,
      icon |-> day_condition.icon]

\* the body of the loop `for i in range(5)`
forecast_entry(index, i, label_at, jitter_high, jitter_low) ==
  LET day_condition == condition_at((index + i) % Len(conditions))
  IN [day |-> DayAbbr[Weekday(DateOf(label_at + Days(i))) + 1],
      high |-> day_condition.temp_range[2] + jitter_high,
      low |-> day_condition.temp_range[1] + jitter_low,
      icon |-> day_condition.icon]

\* what get_mock_weather returns
get_mock_weather(reads, draws) ==
  LET index == day_index(reads[1])
      weather == condition_at(index)
      hour == Hour(reads[2])
  IN [location |-> "Shenzhen, China",
      temperature |-> temperature(weather, hour),
      condition |-> weather.condition,
      icon |-> weather.icon,
      humidity |-> 50 + draws[11],
      wind |-> 5 + draws[12],
      forecast |-> [k \in 1..5 |->
                      forecast_entry(index, k - 1, reads[k + 2],
                                     draws[2 * k - 1], draws[2 * k])]]

\* the clock as seven reads in a row see it, when it ticks once after the
\* first `before` of them
ReadsOf(before) == [k \in 1..7 |-> IF k <= before THEN now ELSE now + 1]

\* GET /api/weather
get_weather(before, draws) ==
  /\ LET reads == ReadsOf(before)
     IN /\ resp' = [op |-> "get_weather", id |-> 0, status |-> 200,
                    reads |-> reads,
                    body |-> get_mock_weather(reads, draws)]
        /\ clock' = reads[7] - tz
  /\ UNCHANGED <<tz, todos, notes, events, sessions>>

(***************************************************************************)
(* Requests a client may send                                              *)
(***************************************************************************)
\* a seeded row, the first row a client adds, and an id past every row
ReqIds(seeded, cap) == {1, Len(seeded) + 1, cap + 1}

NoteBodies ==
  {NoFields, [title |-> "Plan", content |-> "line1\nline2"]}
NoteChanges ==
  {[title |-> "Renamed"], [content |-> "", color |-> "danger"]}

(***************************************************************************)
(* SpecNotes: the notes API under a running clock                          *)
(***************************************************************************)
MaxNoteClock == 2

NextNotes ==
  \/ Tick(MaxNoteClock) /\ UNCHANGED served
  \/ \E data \in NoteBodies, flushed \in clock..(clock + 1) :
       /\ flushed <= MaxNoteClock /\ Room(notes, MaxNotes)
       /\ add_note(data, flushed) /\ UNCHANGED served
  \/ \E id \in ReqIds(sample_notes, MaxNotes) :
       get_note(id) /\ UNCHANGED served
  \/ \E id \in ReqIds(sample_notes, MaxNotes), data \in NoteChanges :
       update_note(id, data) /\ UNCHANGED served
  \/ \E id \in ReqIds(sample_notes, MaxNotes) :
       delete_note(id) /\ UNCHANGED served

\* the server runs in UTC: no note handler reads the local time
InitUTC == Init /\ tz = 0

SpecNotes == InitUTC /\ [][NextNotes]_vars

\* every stored note was last updated at or after its creation
UpdatedNotBeforeCreated ==
  \A id \in DOMAIN notes : notes[id].updated_at >= notes[id].created_at

\* a step that is a successful update_note request
IsNoteUpdate == 
  /\ resp'.op = "update_note" /\ resp'.status = 200
  /\ (resp' # resp \/ notes' # notes)

\* an update stamps the note with the time of the update, and no step
\* changes the created_at of a note that stays stored
UpdateRefreshes ==
  /\ IsNoteUpdate => notes'[resp'.id].updated_at = clock'
  /\ \A id \in DOMAIN notes \cap DOMAIN notes' :
       notes'[id].created_at = notes[id].created_at

\* C1: with a clock that never goes backwards, every stored Note has
\* updated_at >= created_at after any sequence of create, update and delete
\* requests; each update_note sets updated_at to the time of that update and
\* leaves created_at as it was set at creation.
C1_NoteTimestamps == [](UpdatedNotBeforeCreated) /\ [][UpdateRefreshes]_vars

\* a note created at one tick has been updated at a later one
C1_Witness ==
  /\ resp.op = "update_note" /\ resp.status = 200
  /\ notes[resp.id].created_at < notes[resp.id].updated_at
  /\ notes[resp.id].created_at > 0


(***************************************************************************)
(* SpecStore: the whole JSON API, runs of at most MaxRequests requests     *)
(***************************************************************************)
MaxRequests == 3

TodoBodies == {NoFields, [task |-> "Buy milk"]}
TodoChanges == {[completed |-> TRUE], [task |-> ""]}
EventBodies ==
  {[title |-> "Review", date |-> Iso(2024, 3, 1), time |-> HM(9, 0)],
   [date |-> Iso(2024, 2, 30)]}
EventChanges ==
  {[date |-> Iso(2024, 3, 31)],
   [date |-> Iso(2024, 1, 31), time |-> <<>>, description |-> "a\r\nb"],
   [title |-> "Moved", date |-> Iso(2023, 2, 29)]}
PomodoroBodies == {NoFields, [duration |-> 0], [duration |-> -5]}

\* one more request is served
Served == served < MaxRequests /\ served' = served + 1

NextStore ==
  \/ \E data \in TodoBodies :
       Room(todos, MaxTodos) /\ add_todo(data) /\ Served
  \/ \E id \in ReqIds(sample_todos, MaxTodos), data \in TodoChanges :
       update_todo(id, data) /\ Served
  \/ \E id \in ReqIds(sample_todos, MaxTodos) : delete_todo(id) /\ Served
  \/ \E data \in NoteBodies :
       Room(notes, MaxNotes) /\ add_note(data, clock) /\ Served
  \/ \E id \in ReqIds(sample_notes, MaxNotes) : get_note(id) /\ Served
  \/ \E id \in ReqIds(sample_notes, MaxNotes), data \in NoteChanges :
       update_note(id, data) /\ Served
  \/ \E id \in ReqIds(sample_notes, MaxNotes) : delete_note(id) /\ Served
  \/ \E data \in EventBodies :
       Room(events, MaxEvents) /\ add_event(data) /\ Served
  \/ \E id \in ReqIds(sample_events, MaxEvents) : get_event(id) /\ Served
  \/ \E id \in ReqIds(sample_events, MaxEvents), data \in EventChanges :
       update_event(id, data) /\ Served
  \/ \E id \in ReqIds(sample_events, MaxEvents) : delete_event(id) /\ Served
  \/ \E data \in PomodoroBodies :
       Room(sessions, MaxSessions) /\ complete_pomodoro(data) /\ Served

SpecStore == InitUTC /\ [][NextStore]_vars

\* C2: invalid input (empty task text, a duration <= 0) is rejected before
\* any mutation, so every stored Todo has a non-empty task and every stored
\* PomodoroSession has a positive duration.
C2_InvalidInputRejected ==
  /\ \A id \in DOMAIN todos : todos[id].task # ""
  /\ \A id \in DOMAIN sessions : sessions[id].duration > 0
  /\ (resp.op = "add_todo" /\ resp.status = 201) => resp.body.task # ""
  /\ (resp.op = "complete_pomodoro" /\ resp.status = 201)
       => resp.body.duration > 0

GetOps == {"get_note", "get_event"}
UpdateOps == {"update_todo", "update_note", "update_event"}
DeleteOps == {"delete_todo", "delete_note", "delete_event"}

\* the table a request for one record is addressed to
TableOf(op) ==
  IF op \in {"update_todo", "delete_todo"} THEN todos
  ELSE IF op \in {"get_note", "update_note", "delete_note"} THEN notes
  ELSE events

\* ids removed from a table by a step
Gone(before, after) == DOMAIN before \ DOMAIN after

\* what a step that serves a request for one record must satisfy
AbsentIsNotFound ==
  LET op == resp'.op
      id == resp'.id
  IN /\ (op \in GetOps \cup UpdateOps \cup DeleteOps
          /\ id \notin DOMAIN TableOf(op))
        => (resp'.status = 404 /\ UNCHANGED tables)
     /\ op \in UpdateOps
        => /\ DOMAIN todos' = DOMAIN todos
           /\ DOMAIN notes' = DOMAIN notes
           /\ DOMAIN events' = DOMAIN events
     /\ op \in DeleteOps
        => /\ Gone(todos, todos') \cup Gone(notes, notes')
                \cup Gone(events, events') \subseteq {id}
           /\ \A i \in DOMAIN todos' : i \in DOMAIN todos /\ todos'[i] = todos[i]
           /\ \A i \in DOMAIN notes' : i \in DOMAIN notes /\ notes'[i] = notes[i]
           /\ \A i \in DOMAIN events' :
                i \in DOMAIN events /\ events'[i] = events[i]

\* C3: for Todo, Note and Event, a get, update or delete addressed to an id
\* that is not in the collection answers 404 and leaves every collection as
\* it was; update never creates a record and delete never removes a record
\* other than the one addressed.
C3_AbsentIdNotFound == [][served' # served => AbsentIsNotFound]_vars

\* a request for the seeded row 1 after it was deleted was answered 404
C3_Witness ==
  /\ resp.status = 404 /\ resp.id = 1
  /\ resp.op \in UpdateOps \cup DeleteOps \cup GetOps
  /\ served >= 2


(***************************************************************************)
(* SpecPomo: sessions recorded over a week and more, and the views of them *)
(***************************************************************************)
NextPomo ==
  \/ Tick(MaxClock) /\ UNCHANGED served
  \/ /\ Room(sessions, MaxSessions)
     /\ complete_pomodoro(NoFields) /\ UNCHANGED served
  \/ get_pomodoro_stats /\ UNCHANGED served
  \/ pomodoro /\ UNCHANGED served
  \/ dashboard /\ UNCHANGED served

SpecPomo == Init /\ [][NextPomo]_vars

\* sessions whose created_at lies on the calendar day `date`
OnDate(date) == {i \in DOMAIN sessions : DateOf(sessions[i].created_at) = date}

\* C4: the today count of the pomodoro statistics is the number of sessions
\* whose created_at lies in [midnight of now's date, midnight + 1 day):
\* sessions before that midnight or at or after the next one are not counted.
C4_TodayWindow ==
  resp.op = "get_pomodoro_stats"
    => resp.body.today_sessions = Cardinality(OnDate(DateOf(now)))

\* C5: the weekly histogram has 7 buckets, oldest day first and today last;
\* bucket i counts the sessions created on the day (6 - i) days before
\* today and is labelled with that day's weekday; the buckets add up to the
\* number of sessions created within those 7 days, so to the total count
\* when every session is, and a session outside the window is in no bucket.
C5_WeeklyHistogram ==
  resp.op = "dashboard" =>
    LET w == resp.body.weekly_data
        today == DateOf(now)
        inWindow == {i \in DOMAIN sessions :
                       DateOf(sessions[i].created_at) \in (today - 6)..today}
    IN /\ DOMAIN w = 1..7
       /\ \A i \in 0..6 :
            /\ w[i + 1].sessions = Cardinality(OnDate(today - (6 - i)))
            /\ w[i + 1].day = DayAbbr[Weekday(today - (6 - i)) + 1]
       /\ SumTo([k \in 1..7 |-> w[k].sessions], 7) = Cardinality(inWindow)
       /\ inWindow = DOMAIN sessions
            => SumTo([k \in 1..7 |-> w[k].sessions], 7)
                 = Cardinality(DOMAIN sessions)

\* the dashboard shows a week in which one session falls in a bucket before
\* today's and another session is older than the whole window
C5_Witness ==
  /\ resp.op = "dashboard"
  /\ \E i \in 1..6 : resp.body.weekly_data[i].sessions > 0
  /\ \E k \in DOMAIN sessions :
       DateOf(sessions[k].created_at) < DateOf(now) - 6


(***************************************************************************)
(* SpecFocus: sessions of several durations, and the statistics of them    *)
(***************************************************************************)
MaxFocusSessions == 3

FocusBodies == PomodoroBodies \cup {[duration |-> 10], [duration |-> 50]}

NextFocus ==
  \/ \E data \in FocusBodies :
       /\ Room(sessions, MaxFocusSessions)
       /\ complete_pomodoro(data) /\ UNCHANGED served
  \/ get_pomodoro_stats /\ UNCHANGED served
  \/ pomodoro /\ UNCHANGED served

SpecFocus == Init /\ [][NextFocus]_vars

RECURSIVE Minutes(_)
\* the durations of the sessions ids, added up
Minutes(ids) ==
  IF ids = {} THEN 0
  ELSE LET i == CHOOSE k \in ids : TRUE
       IN sessions[i].duration + Minutes(ids \ {i})

\* C6: the reported total focus hours are floor(sum of all durations / 60),
\* the fraction dropped and never rounded up; the total count is the number
\* of stored sessions; with no session the today count, the total count and
\* the total hours are 0.
C6_FocusHours ==
  resp.op \in {"get_pomodoro_stats", "pomodoro"} =>
    LET b == resp.body
        sum == Minutes(DOMAIN sessions)
    IN /\ b.total_hours * 60 <= sum
       /\ sum < (b.total_hours + 1) * 60
       /\ b.total_sessions = Cardinality(DOMAIN sessions)
       /\ DOMAIN sessions = {}
            => b.today_sessions = 0 /\ b.total_sessions = 0
               /\ b.total_hours = 0

\* sessions of 25, 25 and 10 minutes are reported as 1 hour
C6_Witness ==
  /\ resp.op = "get_pomodoro_stats"
  /\ \E i, j, k \in DOMAIN sessions :
       /\ i # j /\ j # k /\ i # k
       /\ sessions[i].duration = 25 /\ sessions[j].duration = 25
       /\ sessions[k].duration = 10
  /\ resp.body.total_sessions = 3
  /\ resp.body.total_hours = 1


(***************************************************************************)
(* SpecCal: the calendar page over a changing set of events                *)
(***************************************************************************)
\* the query parameters tried: every month number around 1..12 in a leap
\* year, and the ends of the year in years at and around the date type's
\* limits and in leap and common years
CalRequests ==
  ({2024} \X (-1..14))
    \cup ({0, 1, 2000, 2023, 2100, 9998, 9999, 10000} \X {0, 1, 2, 12, 13})

NextCal ==
  \/ \E data \in EventBodies :
       /\ Room(events, MaxEvents)
       /\ add_event(data) /\ UNCHANGED served
  \/ \E id \in ReqIds(sample_events, MaxEvents), data \in EventChanges :
       update_event(id, data) /\ UNCHANGED served
  \/ \E id \in ReqIds(sample_events, MaxEvents) :
       delete_event(id) /\ UNCHANGED served
  \/ \E req \in CalRequests :
       calendar_page(req[1], req[2]) /\ UNCHANGED served

SpecCal == InitUTC /\ [][NextCal]_vars

\* the calendar page has answered a request
Answered == resp.op = "calendar_page"
Rendered == Answered /\ resp.status = 200

\* the response without the request it answers
ViewOf(r) ==
  IF r.status = 200 THEN [status |-> r.status, body |-> r.body]
  ELSE [status |-> r.status]

\* C7: month normalization wraps one unit: the page for (year, 13) is the
\* page for (year + 1, 1), the page for (year, 0) is the page for
\* (year - 1, 12) - same year, month, grid, first and last day and grouped
\* events - and a month in 1..12 is left unchanged.
C7_MonthWraps ==
  Answered =>
    LET year == resp.args.year
        month == resp.args.month
    IN /\ month = 13 => ViewOf(resp) \in calendar_views(year + 1, 1)
       /\ month = 1 => ViewOf(resp) \in calendar_views(year - 1, 13)
       /\ month = 0 => ViewOf(resp) \in calendar_views(year - 1, 12)
       /\ month = 12 => ViewOf(resp) \in calendar_views(year + 1, 0)
       /\ (month \in 1..12 /\ resp.status = 200)
            => resp.body.year = year /\ resp.body.month = month

\* month 13 of 2023 was rendered as January 2024, with events on it
C7_Witness ==
  /\ Rendered
  /\ resp.args.month \in {0, 13}
  /\ resp.body.year # resp.args.year
  /\ resp.body.events_by_date # [k \in {} |-> <<>>]

\* C8: a (year, month) whose month is outside 1..12 even after wrapping by
\* one unit (month 14, month -1), or whose year overflows the date type,
\* makes the calendar page fail; it is never clamped to a valid month and
\* rendered.
C8_InvalidMonthFails ==
  (/\ Answered
   /\ \/ resp.args.month \notin 0..13
      \/ resp.args.year \notin MINYEAR..MAXYEAR)
    => resp.status # 200

\* the cells of the grid, week after week
Flat(grid) ==
  [k \in 1..(7 * Len(grid)) |->
     grid[((k - 1) \div 7) + 1][((k - 1) % 7) + 1]]

\* what C9 says of a rendered page
GridIsMonth ==
  LET b == resp.body
      cells == Flat(b.month_days)
      ndays == DaysInMonth(b.year, b.month)
      filled == {k \in DOMAIN cells : cells[k] # 0}
  IN /\ \A w \in DOMAIN b.month_days : DOMAIN b.month_days[w] = 1..7
     /\ {cells[k] : k \in filled} = 1..ndays
     /\ Cardinality(filled) = ndays
     /\ \A j, k \in filled : j < k => cells[j] < cells[k]
     \* column 1 is Sunday: weekday 6 of date.weekday()
     /\ \A k \in filled :
          Weekday(ToOrdinal(b.year, b.month, cells[k]))
            = (((k - 1) % 7) + 6) % 7
     /\ Ymd(b.first_day) = <<b.year, b.month, 1>>
     /\ Ymd(b.last_day) = <<b.year, b.month, ndays>>

\* a (year, month) the date type holds
ValidMonth(year, month) == year \in MINYEAR..MAXYEAR /\ month \in 1..12

\* C9: for every valid (year, month) the grid is a list of 7-cell weeks
\* starting on Sunday whose non-empty cells are the day numbers
\* 1..daysInMonth, each once and in increasing order, and the computed last
\* day is day daysInMonth of that month, leap Februaries included.
C9_GridOfEveryValidMonth ==
  (Answered /\ ValidMonth(resp.args.year, resp.args.month))
    => (resp.status = 200 /\ GridIsMonth)

\* C9 as amended: the same for every valid (year, month) but December of
\* MAXYEAR, where the first day of the following month overflows the date
\* type and the page fails.
C9_GridOfMonth ==
  (Answered /\ ValidMonth(resp.args.year, resp.args.month))
    => IF resp.args.year = MAXYEAR /\ resp.args.month = 12
       THEN resp.status = 500
       ELSE resp.status = 200 /\ GridIsMonth

\* February of the leap year 2024 was rendered: 29 days, last day the 29th
C9_Witness ==
  /\ Rendered
  /\ resp.args = [year |-> 2024, month |-> 2]
  /\ Len(resp.body.month_days) = 5
  /\ resp.body.month_days[5][5] = 29
  /\ Ymd(resp.body.last_day) = <<2024, 2, 29>>

\* the events of the month of a rendered page
InMonth(b) ==
  {id \in DOMAIN events :
     Ymd(events[id].date)[1] = b.year /\ Ymd(events[id].date)[2] = b.month}

\* the <<key, position>> pairs of the grouped events
Slots(g) ==
  {s \in (DOMAIN g) \X (1..Cardinality(DOMAIN events)) :
     s[2] <= Len(g[s[1]])}

\* C10: the grouped events are exactly the events dated within the closed
\* range [first day, last day] of the month, each once under the key of its
\* own ISO date, with no empty list, each list in ascending lexical order
\* of the time label.
C10_GroupedEvents ==
  Rendered =>
    LET b == resp.body
        g == b.events_by_date
    IN /\ {g[s[1]][s[2]].id : s \in Slots(g)} = InMonth(b)
       /\ Cardinality(Slots(g)) = Cardinality(InMonth(b))
       /\ \A s \in Slots(g) :
            LET e == g[s[1]][s[2]]
            IN /\ s[1] = isoformat(events[e.id].date)
               /\ e.date = s[1]
               /\ e.time = events[e.id].time
       /\ \A k \in DOMAIN g : Len(g[k]) > 0
       /\ \A k \in DOMAIN g : \A i, j \in 1..Len(g[k]) :
            i < j => ~LexLess(g[k][j].time, g[k][i].time)

\* a month was rendered with an event on its first day, one on its last
\* day, two events of one day listed against the order of their ids, and
\* an event of another month left out
C10_Witness ==
  /\ Rendered
  /\ isoformat(resp.body.first_day) \in DOMAIN resp.body.events_by_date
  /\ isoformat(resp.body.last_day) \in DOMAIN resp.body.events_by_date
  /\ \E k \in DOMAIN resp.body.events_by_date :
       LET l == resp.body.events_by_date[k]
       IN Len(l) >= 2 /\ l[1].id > l[2].id /\ l[1].time # l[2].time
  /\ InMonth(resp.body) # DOMAIN events

(***************************************************************************)
(* SpecExport: the CSV exports of a store that clients have written to;    *)
(* a note is added a tick after the request before it                      *)
(***************************************************************************)
\* a note and an event whose title runs over two lines
ExportNoteBodies ==
  NoteBodies \cup {[title |-> "Shopping\nlist", content |-> "milk\r\neggs"]}
ExportEventBodies ==
  EventBodies
    \cup {[title |-> "Dinner,\r\n\"late\"", date |-> Iso(2024, 2, 25),
           time |-> HM(19, 30), description |-> "bring\nwine"]}

NextExport ==
  \/ \E data \in ExportNoteBodies :
       /\ Room(notes, MaxNotes) /\ clock < MaxNoteClock
       /\ add_note(data, clock + 1) /\ UNCHANGED served
  \/ \E id \in ReqIds(sample_notes, MaxNotes) :
       delete_note(id) /\ UNCHANGED served
  \/ \E data \in ExportEventBodies :
       /\ Room(events, MaxEvents)
       /\ add_event(data) /\ UNCHANGED served
  \/ export_notes_csv /\ UNCHANGED served
  \/ export_calendar_csv /\ UNCHANGED served

SpecExport == InitUTC /\ [][NextExport]_vars

\* the character of text at position i
At(text, i) == SubSeq(text, i, i)

\* the positions at which a line of text ends: every LF, and every CR that
\* no LF follows
LineEnds(text) ==
  {i \in 1..Len(text) :
     \/ At(text, i) = "\n"
     \/ At(text, i) = "\r" /\ (i = Len(text) \/ At(text, i + 1) # "\n")}

\* the positions at which a line of text starts
LineStarts(text) ==
  IF text = "" THEN {}
  ELSE {1} \cup {e + 1 : e \in LineEnds(text) \ {Len(text)}}

\* the line of text that starts at position start, without its line break
LineAt(text, start) ==
  LET after == {e \in LineEnds(text) : e >= start}
      end == IF after = {} THEN Len(text) + 1
             ELSE CHOOSE e \in after : \A f \in after : e <= f
      last == IF end <= Len(text) /\ end > start /\ At(text, end) = "\n"
                 /\ At(text, end - 1) = "\r"
              THEN end - 2 ELSE end - 1
  IN SubSeq(text, start, last)

RECURSIVE Spaced(_)
\* text with a space in the place of every CR and every LF
Spaced(text) ==
  IF Len(text) <= 1 THEN (IF text \in {"\r", "\n"} THEN " " ELSE text)
  ELSE LET half == Len(text) \div 2
       IN Spaced(SubSeq(text, 1, half))
            \o Spaced(SubSeq(text, half + 1, Len(text)))

\* line begins with the text start
StartsWith(line, start) ==
  Len(line) >= Len(start) /\ SubSeq(line, 1, Len(start)) = start

\* the ids and the multi-line fields of the records an export writes
Exported ==
  IF resp.op = "export_notes_csv"
  THEN [id \in DOMAIN notes |-> notes[id].content]
  ELSE [id \in DOMAIN events |-> events[id].description]

\* C11: in the notes and calendar exports every CR and every LF of a
\* content or description is written as a space, and the exported text has
\* one record per line: for N stored records it is the header line followed
\* by exactly N record lines, one for each record.
C11_OneRecordPerLine ==
  resp.op \in {"export_notes_csv", "export_calendar_csv"} =>
    LET starts == LineStarts(resp.body)
        header == IF resp.op = "export_notes_csv" THEN notes_header
                  ELSE events_header
    IN /\ Cardinality(starts) = Cardinality(DOMAIN Exported) + 1
       /\ writerow(header) = LineAt(resp.body, 1) \o "\r\n"
       /\ \A id \in DOMAIN Exported :
            \E s \in starts \ {1} :
              LET line == LineAt(resp.body, s)
              IN /\ StartsWith(line, str(id) \o ",")
                 /\ \E i \in 1..Len(line) :
                      StartsWith(SubSeq(line, i, Len(line)),
                                 "," \o csv_field(Spaced(Exported[id])) \o ",")

(***************************************************************************)
(* SpecWeather: the weather API called again and again as time passes      *)
(***************************************************************************)
\* random.randint(-2, 2) ten times, then randint(0, 30) and randint(0, 15):
\* all at the lower end, all at the upper end, the highs lowered and the
\* lows raised, the reverse, and the middle
RandomRuns ==
  {[k \in 1..12 |-> IF k <= 10 THEN -2 ELSE 0],
   [k \in 1..12 |-> IF k <= 10 THEN 2 ELSE IF k = 11 THEN 30 ELSE 15],
   [k \in 1..12 |-> IF k > 10 THEN 7 ELSE IF k % 2 = 1 THEN -2 ELSE 2],
   [k \in 1..12 |-> IF k > 10 THEN 1 ELSE IF k % 2 = 1 THEN 2 ELSE -2],
   [k \in 1..12 |-> IF k <= 10 THEN 0 ELSE 15]}

NextWeather ==
  \/ Tick(MaxClock) /\ UNCHANGED served
  \/ \E before \in 1..7, draws \in RandomRuns :
       /\ before < 7 => clock < MaxClock
       /\ get_weather(before, draws) /\ UNCHANGED served

SpecWeather == Init /\ [][NextWeather]_vars

\* every moment of reads lies on the calendar date and in the hour of dt
InHourOf(reads, dt) ==
  \A k \in DOMAIN reads :
    DateOf(reads[k]) = DateOf(dt) /\ Hour(reads[k]) = Hour(dt)

\* the moments the clock may show within a tick of the response's
Around == (resp.reads[1] - TicksPerDay)..(resp.reads[7] + TicksPerDay)

\* C12: any two invocations of the weather generator at moments with the
\* same calendar date and the same hour return the same condition, the same
\* icon and the same rounded temperature, whatever the random draws; the
\* condition is the template at index (day of month mod N).
C12_WeatherDeterminism ==
  (resp.op = "get_weather" /\ InHourOf(resp.reads, resp.reads[1])) =>
    /\ \A start \in Around, before \in 1..7, draws \in RandomRuns :
         LET reads == [k \in 1..7 |-> IF k <= before THEN start ELSE start + 1]
             other == get_mock_weather(reads, draws)
         IN InHourOf(reads, resp.reads[1]) =>
              /\ other.condition = resp.body.condition
              /\ other.icon = resp.body.icon
              /\ other.temperature = resp.body.temperature
    /\ resp.body.condition
         = conditions[(Ymd(DateOf(resp.reads[1]))[3] % 5) + 1].condition
    /\ resp.body.icon
         = conditions[(Ymd(DateOf(resp.reads[1]))[3] % 5) + 1].icon

\* the weather was reported at noon with the clock ticking during the call,
\* within the hour, and with draws other than at their lower ends
C12_Witness ==
  /\ resp.op = "get_weather"
  /\ resp.reads[1] < resp.reads[7]
  /\ InHourOf(resp.reads, resp.reads[1])
  /\ Hour(resp.reads[1]) = 12
  /\ resp.body.humidity = 80
  /\ resp.body.forecast[1].high # conditions[1].temp_range[2] - 2

(***************************************************************************)
(* SpecPomoUTC: the sessions and their views on a server that runs in UTC  *)
(***************************************************************************)
SpecPomoUTC == InitUTC /\ [][NextPomo]_vars

\* C13: for the same sessions and the same current time, the today count
\* shown by the dashboard equals the today count of the pomodoro statistics,
\* and both equal the last bucket of the dashboard's weekly histogram.
C13_TodayCountsAgree ==
  resp.op = "dashboard" =>
    /\ resp.body.today_sessions = pomodoro_stats.today_sessions
    /\ resp.body.today_sessions = resp.body.weekly_data[7].sessions
    /\ pomodoro_stats.today_sessions = resp.body.weekly_data[7].sessions


(***************************************************************************)
(* The forecast of the weather API, under SpecWeather                      *)
(***************************************************************************)
\* what the generator reports when it is invoked at the moment dt
ReportedAt(dt) ==
  get_mock_weather([k \in 1..7 |-> dt], CHOOSE draws \in RandomRuns : TRUE)

\* the day i days after the moment dt lies in the calendar month of dt
SameMonth(dt, i) ==
  LET today == Ymd(DateOf(dt))
      later == Ymd(DateOf(dt + Days(i)))
  IN later[1] = today[1] /\ later[2] = today[2]

\* C14: for every current date and every i in 0..4, forecast entry i
\* carries the icon of the condition the generator reports as the current
\* condition when it is invoked i days later, and every entry's high is
\* strictly greater than its low for every jitter draw.
C14_ForecastIsLaterCondition ==
  resp.op = "get_weather" =>
    \A i \in 0..4 :
      /\ resp.body.forecast[i + 1].icon
           = ReportedAt(resp.reads[1] + Days(i)).icon
      /\ resp.body.forecast[i + 1].high > resp.body.forecast[i + 1].low

\* C14 as amended: the same for every i in 0..4 whose day lies in the
\* calendar month of the current date; the high is above the low in every
\* entry.
C14_ForecastWithinMonth ==
  resp.op = "get_weather" =>
    \A i \in 0..4 :
      /\ SameMonth(resp.reads[1], i)
           => resp.body.forecast[i + 1].icon
                = ReportedAt(resp.reads[1] + Days(i)).icon
      /\ resp.body.forecast[i + 1].high > resp.body.forecast[i + 1].low

\* a forecast of five days of one month, each with a condition of its own,
\* whose rainy day has its high lowered and its low raised as far as the
\* jitter goes
C14_Witness ==
  /\ resp.op = "get_weather"
  /\ SameMonth(resp.reads[1], 4)
  /\ \A i, j \in 1..5 :
       i # j => resp.body.forecast[i].icon # resp.body.forecast[j].icon
  /\ \E i \in 1..5 :
       /\ resp.body.forecast[i].icon = "cloud-rain"
       /\ resp.body.forecast[i].high = resp.body.forecast[i].low + 2

====
